---------------------------- MODULE Spec2Model ----------------------------
(***************************************************************************)
(* The operational dashboard: the sheet ingestion of the data service      *)
(* (fetchSheetData, parseNumber) and the refresh lifecycle of App           *)
(* (loadData, the mount effect with its two interval timers, the login      *)
(* gate).                                                                   *)
(*                                                                          *)
(* Text is a sequence of one-character strings.  A finite number is a       *)
(* fixed-point integer counting units of 10^-FracDigits.                    *)
(***************************************************************************)
EXTENDS Integers, Sequences, FiniteSets, TLC

\* Most loadData calls (the mount call plus the refresh ticks) in one run.
MaxFetches == 3

\* Most ticks of the one-second display clock in one run.
MaxClock == 2

\* Fractional digits a number keeps.
FracDigits == 2

\* Longest text drawn for a cell.
MaxLen == 3

\* Number.MAX_VALUE has 309 integer digits: an integer of more digits is Infinity.
MaxFiniteDigits == 309

VARIABLES
  dashboard_auth,   \* localStorage item 'dashboard_auth' is 'true'
  isAuthenticated,  \* App state
  inquiries,        \* App state: the records
  loading,          \* App state
  currentTime,      \* App state: ticks of the display clock seen so far
  phase,            \* "constructed" | "mounted" | "unmounted" (the mount effect)
  interval,         \* the refresh timer is set
  clock,            \* the display-clock timer is set
  calls,            \* loadData calls in flight: [id, byTick, pc]
  issued,           \* history: number of loadData calls started
  settled,          \* history: number of loadData calls that have settled
  last,             \* history: the call settled last: [id, kind, byTick]
  everOk,           \* history: some fetch really succeeded
  lastGood,         \* history: the records of the last fetch that really succeeded
  returned,         \* history: the values fetchSheetData has resolved with
  coerce,           \* one parseNumber call: [text, done, result]
  ingest,           \* one row through the row mapping of a data service
  request,          \* the requests of a data service over time
  window            \* the reporting window of App: records, today, the memoized subset

\* The state of App and of its loadData calls.
appVars == <<dashboard_auth, isAuthenticated, inquiries, loading, currentTime, phase,
             interval, clock, calls, issued, settled, last, everOk, lastGood, returned>>

\* The state of the functions studied on their own.
pureVars == <<coerce, ingest, request, window>>

vars == <<appVars, pureVars>>

----------------------------------------------------------------------------
\* Text and numbers

Scale == 10 ^ FracDigits

Digits == {"0", "1", "2", "3", "4", "5", "6", "7", "8", "9"}

DigitVal(c) ==
  CASE c = "0" -> 0 [] c = "1" -> 1 [] c = "2" -> 2 [] c = "3" -> 3 [] c = "4" -> 4
    [] c = "5" -> 5 [] c = "6" -> 6 [] c = "7" -> 7 [] c = "8" -> 8 [] c = "9" -> 9

\* An absent cell (undefined): no text is equal to it.
Undefined == <<"undefined">>

EmptyText == <<>>

WhiteSpace == {" ", "\t", "\n", "\r"}

RECURSIVE TrimStart(_)
TrimStart(s) ==
  IF s # <<>> /\ s[1] \in WhiteSpace THEN TrimStart(Tail(s)) ELSE s

RECURSIVE TrimEnd(_)
TrimEnd(s) ==
  IF s # <<>> /\ s[Len(s)] \in WhiteSpace THEN TrimEnd(SubSeq(s, 1, Len(s) - 1)) ELSE s

\* String.prototype.trim
Trim(s) == TrimEnd(TrimStart(s))

\* val || '' : undefined and '' are falsy
OrEmpty(val) == IF val = Undefined \/ val = EmptyText THEN EmptyText ELSE val

\* a || b on cells
OrElse(a, b) == IF a = Undefined \/ a = EmptyText THEN b ELSE a

\* String(val).replace(/[^0-9.\-]+/g, '')
Kept(c) == c \in Digits \cup {".", "-"}

Cleaned(s) == SelectSeq(s, Kept)

RECURSIVE DigitsValue(_)
DigitsValue(s) ==
  IF s = <<>> THEN 0 ELSE 10 * DigitsValue(SubSeq(s, 1, Len(s) - 1)) + DigitVal(s[Len(s)])

CountOf(c, s) == Cardinality({i \in 1..Len(s) : s[i] = c})

\* The fraction digits as units of 10^-FracDigits (digits past FracDigits are cut).
FracValue(f) ==
  LET kept == SubSeq(f, 1, IF Len(f) < FracDigits THEN Len(f) ELSE FracDigits)
  IN  DigitsValue(kept) * (10 ^ (FracDigits - Len(kept)))

\* A JavaScript number: finite (v units of 10^-FracDigits), NaN, or an infinity
\* (v is its sign).
Num(v) == [nan |-> FALSE, inf |-> FALSE, v |-> v]

NaN == [nan |-> TRUE, inf |-> FALSE, v |-> 0]

Infinity(sign) == [nan |-> FALSE, inf |-> TRUE, v |-> sign]

Zero == Num(0)

IsFinite(n) == ~n.nan /\ ~n.inf

\* n > 0
Positive(n) == ~n.nan /\ n.v > 0

\* n !== 0
NotZero(n) == n.nan \/ n.v # 0

\* The digits without their leading zeros.
Significant(s) ==
  LET nonZero == {i \in 1..Len(s) : s[i] # "0"}
  IN  IF nonZero = {} THEN <<>>
      ELSE SubSeq(s, CHOOSE i \in nonZero : \A j \in nonZero : i <= j, Len(s))

\* Number(cleaned) for a text of digits, '.' and '-':
\* '' is 0; an optional leading '-', then digits with at most one '.', at least one
\* digit; anything else is NaN.
ToNumber(s) ==
  LET neg    == s # <<>> /\ s[1] = "-"
      body   == IF neg THEN Tail(s) ELSE s
      dots   == CountOf(".", body)
      valid  == /\ CountOf("-", body) = 0
                /\ dots <= 1
                /\ Len(body) - dots >= 1
      dotPos == IF dots = 0 THEN Len(body) + 1
                ELSE CHOOSE i \in 1..Len(body) : body[i] = "."
      int    == SubSeq(body, 1, dotPos - 1)
      mag    == DigitsValue(int) * Scale
                  + FracValue(SubSeq(body, dotPos + 1, Len(body)))
  IN  IF s = <<>> THEN Zero
      ELSE IF ~valid THEN NaN
      ELSE IF Len(Significant(int)) > MaxFiniteDigits
             THEN Infinity(IF neg THEN 0 - 1 ELSE 1)
      ELSE Num(IF neg THEN 0 - mag ELSE mag)

parseNumber(val) ==
  IF val = Undefined \/ val = EmptyText THEN Zero
  ELSE LET num == ToNumber(Cleaned(val))
       IN  IF num.nan THEN Zero ELSE num

----------------------------------------------------------------------------
\* fetchSheetData: the parse result mapped to records

\* row[h]
Cell(row, h) == IF h \in DOMAIN row THEN row[h] ELSE Undefined

\* results.meta.fields ? results.meta.fields[0] : 'FOLDER NUMBER'
FirstHeader(fields) ==
  IF fields = Undefined THEN "FOLDER NUMBER"
  ELSE IF fields = <<>> THEN "undefined"
  ELSE fields[1]

MapRow(row, firstHeader) ==
  [ rowNum          |-> parseNumber(Cell(row, firstHeader)),
    year            |-> parseNumber(Cell(row, "YEAR")),
    month           |-> OrEmpty(Cell(row, "MONTH")),
    date            |-> parseNumber(Cell(row, "DATE")),
    folderNumber    |-> OrEmpty(Cell(row, firstHeader)),
    week            |-> OrElse(Cell(row, "WEEK "), OrEmpty(Cell(row, "WEEK"))),
    vesselName      |-> Trim(OrEmpty(Cell(row, "VESSEL NAME"))),
    eta             |-> OrEmpty(Cell(row, "ETA")),
    port            |-> OrEmpty(Cell(row, "PORT")),
    principal       |-> OrEmpty(Cell(row, "PRINCIPAL")),
    country         |-> OrEmpty(Cell(row, "COUNTRY")),
    service         |-> OrEmpty(Cell(row, "SERVICE")),
    category        |-> OrEmpty(Cell(row, "CATEGORY")),
    qtnValue        |-> parseNumber(Cell(row, "PDA / QTN VALUE")),
    qtnCost         |-> parseNumber(OrElse(Cell(row, "PDA / QTN  COST"),
                                           Cell(row, "PDA / QTN COST"))),
    qtnProfit       |-> parseNumber(Cell(row, "PDA / QTN PROFIT")),
    qtnMargin       |-> parseNumber(Cell(row, "PDA / QTN MARGIN")),
    marginPercent   |-> parseNumber(Cell(row, "MARGIN %")),
    discountPercent |-> OrEmpty(Cell(row, "DISCOUNT %")),
    qtnStatus       |-> Trim(OrEmpty(Cell(row, "QTN STATUS"))),
    update          |-> Trim(OrEmpty(Cell(row, "UPDATE"))),
    contactPerson   |-> Trim(OrElse(Cell(row, "CONTACT PERSON "),
                                    OrEmpty(Cell(row, "CONTACT PERSON")))),
    contactNumber   |-> OrEmpty(Cell(row, "CONTACT NUMBER")),
    contactEmail    |-> OrEmpty(Cell(row, "CONTACT PERSON'S EMAIL")),
    pic             |-> OrEmpty(Cell(row, "PIC")),
    clientStatus    |-> OrEmpty(Cell(row, "CLIENT STATUS")),
    remarks         |-> OrEmpty(Cell(row, "REMARKS")),
    rfqNumber       |-> OrEmpty(Cell(row, "RFQ NUMBERS / ITEM DESCRIPTION")) ]

\* The fields of an Inquiry by type.
InquiryNumberFields ==
  {"rowNum", "year", "date", "qtnValue", "qtnCost", "qtnProfit", "qtnMargin",
   "marginPercent"}

InquiryStringFields ==
  {"month", "folderNumber", "week", "vesselName", "eta", "port", "principal",
   "country", "service", "category", "discountPercent", "qtnStatus", "update",
   "contactPerson", "contactNumber", "contactEmail", "pic", "clientStatus", "remarks",
   "rfqNumber"}

\* item.vesselName || item.qtnValue > 0 || item.rowNum > 0
IsValid(item) ==
  item.vesselName # EmptyText \/ Positive(item.qtnValue) \/ Positive(item.rowNum)

RECURSIVE Filter(_)
Filter(items) ==
  IF items = <<>> THEN <<>>
  ELSE IF IsValid(items[1]) THEN <<items[1]>> \o Filter(Tail(items))
  ELSE Filter(Tail(items))

\* Faulty variant of Complete: the valid records come out last row first.
CompleteReversed(results) ==
  LET firstHeader == FirstHeader(results.fields)
      parsedData  == [i \in 1..Len(results.data) |-> MapRow(results.data[i], firstHeader)]
      validData   == Filter(parsedData)
  IN  [i \in 1..Len(validData) |-> validData[Len(validData) + 1 - i]]

\* The complete callback: map every row, keep the valid ones.
Complete(results) ==
  LET firstHeader == FirstHeader(results.fields)
      parsedData  == [i \in 1..Len(results.data) |-> MapRow(results.data[i], firstHeader)]
  IN  Filter(parsedData)

\* The catch of fetchSheetData: return []
CatchResult == <<>>

----------------------------------------------------------------------------
\* fetchSheetData of the shipment data service: the parse result mapped to records

\* The arrow character of a route (U+2794), as one character.
Arrow == "->"

UnknownText == <<"U", "n", "k", "n", "o", "w", "n">>

UnknownVessel == UnknownText \o <<" ", "V", "e", "s", "s", "e", "l">>

\* The positions of the arrow in a route.
ArrowsIn(s) == {i \in 1..Len(s) : s[i] = Arrow}

Least(S) == CHOOSE i \in S : \A j \in S : i <= j

\* routeStr.includes(arrow) ? routeStr.split(arrow).map(trim) : ['Unknown', 'Unknown'],
\* of which the first two elements are taken
Route(routeStr) ==
  LET arrows == ArrowsIn(routeStr)
      first  == Least(arrows)
      rest   == {i \in arrows : i > first}
      stop   == IF rest = {} THEN Len(routeStr) + 1 ELSE Least(rest)
  IN  IF arrows = {} THEN <<UnknownText, UnknownText>>
      ELSE << Trim(SubSeq(routeStr, 1, first - 1)),
              Trim(SubSeq(routeStr, first + 1, stop - 1)) >>

\* Number(String(val || 0).replace(/[^0-9.-]+/g, ""))
NumberOf(val) ==
  IF val = Undefined \/ val = EmptyText THEN ToNumber(<<"0">>)
  ELSE ToNumber(Cleaned(val))

\* One row of the shipment sheet; random is the text of Math.floor(Math.random() * 10000)
\* and today that of new Date().toISOString().split('T')[0].
MapShipment(row, random, today) ==
  LET route == Route(OrEmpty(Cell(row, "Route (Origin-Dest)")))
  IN  [ id             |-> OrElse(Cell(row, "Shipment ID"), <<"S", "H", "P", "-">> \o random),
        date           |-> OrElse(Cell(row, "Date (Dep.)"), today),
        vesselName     |-> OrElse(Cell(row, "Vessel Name"), UnknownVessel),
        origin         |-> route[1],
        destination    |-> route[2],
        payloadTeu     |-> NumberOf(Cell(row, "Payload (TEUs)")),
        revenue        |-> NumberOf(Cell(row, "Revenue ($)")),
        cost           |-> NumberOf(Cell(row, "Op. Costs ($)")),
        profit         |-> NumberOf(Cell(row, "Profit/Loss ($)")),
        fuelEfficiency |-> NumberOf(Cell(row, "Fuel Efficiency (MT/nm)")) ]

ShipmentNumberFields == {"payloadTeu", "revenue", "cost", "profit", "fuelEfficiency"}

\* item.vesselName !== 'Unknown Vessel' || item.revenue !== 0
IsValidShipment(item) == item.vesselName # UnknownVessel \/ NotZero(item.revenue)

\* The complete callback of the shipment data service.
CompleteShipment(results, random, today) ==
  LET parsedData == [i \in 1..Len(results.data) |->
                       MapShipment(results.data[i], random, today)]
  IN  SelectSeq(parsedData, IsValidShipment)

----------------------------------------------------------------------------
\* The sheets the remote store may answer with, as parsed by Papa.parse
\* (header: true, skipEmptyLines: true): the header list, the rows keyed by header,
\* and the errors Papa.parse reports in results.errors.

SheetHeaders == <<"", "YEAR", "MONTH", "DATE", "VESSEL NAME", "PDA / QTN VALUE">>

SheetRow(n, y, m, d, vessel, value) ==
  [h \in {SheetHeaders[i] : i \in 1..Len(SheetHeaders)} |->
     CASE h = "" -> n [] h = "YEAR" -> y [] h = "MONTH" -> m [] h = "DATE" -> d
       [] h = "VESSEL NAME" -> vessel [] h = "PDA / QTN VALUE" -> value]

RowA == SheetRow(<<"1">>, <<"2","0","2","6">>, <<"F","E","B">>, <<"1","9">>,
                 <<" ","M","V"," ","A"," ">>, <<"$","1",",","2","0","0",".","5">>)

RowB == SheetRow(<<"2">>, <<"2","0","2","6">>, <<"F","E","B">>, <<"1","8">>,
                 <<>>, <<"7","5">>)

RowBlank == SheetRow(<<>>, <<>>, <<" ">>, <<>>, <<" "," ">>, <<"-">>)

\* A row with fewer cells than the header: the missing keys are absent.
RowShort ==
  [h \in {"", "YEAR"} |-> IF h = "" THEN <<"3">> ELSE <<"2","0","2","6">>]

\* A row whose last cell opens a quote that is never closed: the cell runs to
\* the end of the text.
RowUnquoted == SheetRow(<<"4">>, <<"2","0","2","6">>, <<"F","E","B">>, <<"1","9">>,
                        <<"M","V"," ","C">>, <<"9",",","9","\n","5">>)

Sheets ==
  { [fields |-> SheetHeaders, data |-> <<RowA, RowBlank, RowB>>, errors |-> {}],
    [fields |-> SheetHeaders, data |-> <<RowBlank>>, errors |-> {}],
    [fields |-> SheetHeaders, data |-> <<RowShort, RowUnquoted>>,
     errors |-> {"TooFewFields", "MissingQuotes"}] }


----------------------------------------------------------------------------
\* App: state after construction (the useState initial values; no effect has run)

\* Nothing is studied on its own.
Idle == [done |-> FALSE]

PureIdle ==
  /\ coerce = Idle
  /\ ingest = Idle
  /\ request = Idle
  /\ window = Idle

NoCall == [id |-> 0, byTick |-> FALSE, kind |-> "none", outcome |-> "none", value |-> <<>>]

\* Faulty variant of Init: useState(false) for loading.
InitNotLoading ==
  /\ dashboard_auth \in BOOLEAN
  /\ isAuthenticated = dashboard_auth
  /\ inquiries = <<>>
  /\ loading = FALSE
  /\ currentTime = 0
  /\ phase = "constructed"
  /\ interval = FALSE
  /\ clock = FALSE
  /\ calls = {}
  /\ issued = 0
  /\ settled = 0
  /\ last = NoCall
  /\ everOk = FALSE
  /\ lastGood = <<>>
  /\ returned = {}
  /\ PureIdle

Init ==
  /\ dashboard_auth \in BOOLEAN
  /\ isAuthenticated = dashboard_auth
  /\ inquiries = <<>>
  /\ loading = TRUE
  /\ currentTime = 0
  /\ phase = "constructed"
  /\ interval = FALSE
  /\ clock = FALSE
  /\ calls = {}
  /\ issued = 0
  /\ settled = 0
  /\ last = NoCall
  /\ everOk = FALSE
  /\ lastGood = <<>>
  /\ returned = {}
  /\ PureIdle

\* The synchronous part of a loadData call: fetchSheetData() issues the request
\* and the call suspends; no App state is written.
StartLoad(byTick) ==
  /\ issued < MaxFetches
  /\ issued' = issued + 1
  /\ calls' = calls \cup {[id |-> issued + 1, byTick |-> byTick, pc |-> "fetch"]}

\* The mount effect: loadData(), then both timers are set.
Mount ==
  /\ phase = "constructed"
  /\ StartLoad(FALSE)
  /\ interval' = TRUE
  /\ clock' = TRUE
  /\ phase' = "mounted"
  /\ UNCHANGED <<dashboard_auth, isAuthenticated, inquiries, loading, currentTime,
                 settled, last, everOk, lastGood, returned, pureVars>>

\* Faulty variant of Tick: the tick also calls setLoading(true).
TickSetsLoading ==
  /\ interval
  /\ StartLoad(TRUE)
  /\ loading' = TRUE
  /\ UNCHANGED <<dashboard_auth, isAuthenticated, inquiries, currentTime, phase,
                 interval, clock, settled, last, everOk, lastGood, returned, pureVars>>

\* A tick of the refresh timer: loadData()
Tick ==
  /\ interval
  /\ StartLoad(TRUE)
  /\ UNCHANGED <<dashboard_auth, isAuthenticated, inquiries, loading, currentTime, phase,
                 interval, clock, settled, last, everOk, lastGood, returned, pureVars>>

\* A tick of the display clock: setCurrentTime(new Date())
ClockTick ==
  /\ clock
  /\ currentTime < MaxClock
  /\ currentTime' = currentTime + 1
  /\ UNCHANGED <<dashboard_auth, isAuthenticated, inquiries, loading, phase, interval,
                 clock, calls, issued, settled, last, everOk, lastGood, returned, pureVars>>

\* Faulty variant of Unmount: the cleanup forgets clearInterval(clock).
UnmountKeepsClock ==
  /\ phase = "mounted"
  /\ interval' = FALSE
  /\ clock' = clock
  /\ phase' = "unmounted"
  /\ UNCHANGED <<dashboard_auth, isAuthenticated, inquiries, loading, currentTime,
                 calls, issued, settled, last, everOk, lastGood, returned, pureVars>>

\* The cleanup of the mount effect: clearInterval(interval); clearInterval(clock)
Unmount ==
  /\ phase = "mounted"
  /\ interval' = FALSE
  /\ clock' = FALSE
  /\ phase' = "unmounted"
  /\ UNCHANGED <<dashboard_auth, isAuthenticated, inquiries, loading, currentTime,
                 calls, issued, settled, last, everOk, lastGood, returned, pureVars>>

\* Faulty variant of View: the Login screen is never chosen.
ViewWithoutLogin ==
  IF loading THEN "spinner" ELSE "dashboard"

\* What App renders: the Login screen, the spinner, or the dashboard.
View ==
  IF ~isAuthenticated /\ ~loading THEN "login"
  ELSE IF loading THEN "spinner"
  ELSE "dashboard"

\* handleLogin, called by the Login screen while it is rendered.
HandleLogin ==
  /\ phase = "mounted"
  /\ View = "login"
  /\ dashboard_auth' = TRUE
  /\ isAuthenticated' = TRUE
  /\ UNCHANGED <<inquiries, loading, currentTime, phase, interval, clock, calls, issued,
                 settled, last, everOk, lastGood, returned, pureVars>>

----------------------------------------------------------------------------
\* loadData after its await

\* Faulty variant of SetInquiries: the new rows are appended to the held ones.
SetInquiriesAppend(prev, data) == prev \o data

\* setInquiries(data)
SetInquiries(prev, data) == data

\* Faulty variant of Settles: a call whose fetch failed starts another fetch at once.
SettlesAndRetries(c, kind, outcome, value) ==
  /\ IF kind \in {"network", "status", "parse"} /\ issued < MaxFetches
       THEN /\ calls' = (calls \ {c}) \cup
                           {[id |-> issued + 1, byTick |-> c.byTick, pc |-> "fetch"]}
            /\ issued' = issued + 1
       ELSE /\ calls' = calls \ {c}
            /\ issued' = issued
  /\ settled' = settled + 1
  /\ last' = [id |-> c.id, byTick |-> c.byTick, kind |-> kind, outcome |-> outcome,
              value |-> value]
  /\ everOk' = (everOk \/ kind = "ok")
  /\ lastGood' = IF kind = "ok" THEN value ELSE lastGood
  /\ returned' = IF outcome = "resolved" THEN returned \cup {value} ELSE returned
  /\ UNCHANGED <<dashboard_auth, isAuthenticated, currentTime, phase, interval, clock,
                 pureVars>>

\* History of a call that settles.
Settles(c, kind, outcome, value) ==
  /\ calls' = calls \ {c}
  /\ settled' = settled + 1
  /\ last' = [id |-> c.id, byTick |-> c.byTick, kind |-> kind, outcome |-> outcome,
              value |-> value]
  /\ everOk' = (everOk \/ kind = "ok")
  /\ lastGood' = IF kind = "ok" THEN value ELSE lastGood
  /\ returned' = IF outcome = "resolved" THEN returned \cup {value} ELSE returned
  /\ UNCHANGED <<dashboard_auth, isAuthenticated, currentTime, phase, interval, clock,
                 issued, pureVars>>

\* fetchSheetData resolved with data: try { setInquiries(data) } finally { setLoading(false) }
LoadDataResolved(c, kind, data) ==
  /\ inquiries' = SetInquiries(inquiries, data)
  /\ loading' = FALSE
  /\ Settles(c, kind, "resolved", data)

\* Faulty variant of LoadDataRejected: setLoading(false) only on the success path.
LoadDataRejectedKeepsLoading(c, kind) ==
  /\ inquiries' = inquiries
  /\ loading' = loading
  /\ Settles(c, kind, "rejected", <<>>)

\* fetchSheetData rejected: catch { console.error } finally { setLoading(false) }
LoadDataRejected(c, kind) ==
  /\ inquiries' = inquiries
  /\ loading' = FALSE
  /\ Settles(c, kind, "rejected", <<>>)

----------------------------------------------------------------------------
\* fetchSheetData after each of its awaits

\* await fetch(...) or await response.text() rejects (network error): the catch
\* of fetchSheetData returns [].
NetworkError(c) ==
  /\ c \in calls
  /\ LoadDataResolved(c, "network", CatchResult)

\* The response arrives with ok false: the Error thrown is caught by the same
\* catch, which returns [].
ResponseNotOk(c) ==
  /\ c \in calls
  /\ c.pc = "fetch"
  /\ LoadDataResolved(c, "status", CatchResult)

\* The response arrives with ok true: the call awaits response.text().
ResponseOk(c) ==
  /\ c \in calls
  /\ c.pc = "fetch"
  /\ calls' = (calls \ {c}) \cup {[c EXCEPT !.pc = "text"]}
  /\ UNCHANGED <<dashboard_auth, isAuthenticated, inquiries, loading, currentTime, phase,
                 interval, clock, issued, settled, last, everOk, lastGood, returned, pureVars>>

\* The text arrives and Papa.parse calls complete: resolve(validData).  The
\* callback does not read results.errors; the cycle is recorded as malformed
\* when Papa.parse reported errors.
ParseComplete(c, results) ==
  /\ c \in calls
  /\ c.pc = "text"
  /\ LoadDataResolved(c, IF results.errors = {} THEN "ok" ELSE "malformed",
                      Complete(results))

\* Papa.parse calls error: reject(error).  The promise is returned without await,
\* so the rejection passes the catch of fetchSheetData and reaches loadData.
ParseError(c) ==
  /\ c \in calls
  /\ c.pc = "text"
  /\ LoadDataRejected(c, "parse")

\* One step of the call with this id.
CallStep(id) ==
  \E c \in calls :
    /\ c.id = id
    /\ \/ NetworkError(c)
       \/ ResponseNotOk(c)
       \/ ResponseOk(c)
       \/ \E results \in Sheets : ParseComplete(c, results)
       \/ ParseError(c)

Next ==
  \/ Mount
  \/ Tick
  \/ ClockTick
  \/ Unmount
  \/ HandleLogin
  \/ \E c \in calls : NetworkError(c)
  \/ \E c \in calls : ResponseNotOk(c)
  \/ \E c \in calls : ResponseOk(c)
  \/ \E c \in calls : \E results \in Sheets : ParseComplete(c, results)
  \/ \E c \in calls : ParseError(c)

Spec == Init /\ [][Next]_vars

\* Every request is answered in the end: each started call keeps taking steps.
FairSpec == Spec /\ \A id \in 1..MaxFetches : WF_vars(CallStep(id))

----------------------------------------------------------------------------
\* Properties of the refresh lifecycle

\* The ways a fetch cycle fails.
FailureKinds == {"network", "status", "parse"}

\* A loadData call settles in this step, and its fetch failed.
FailedCycleSettles == settled' = settled + 1 /\ last'.kind \in FailureKinds

\* A tick of the refresh timer starts a fetch in this step.
TickStartsFetch == phase = "mounted" /\ issued' = issued + 1

\* C1: a fetch cycle that fails after some cycle has succeeded leaves the records
\* as they were before it.
C1_FailedFetchKeepsRecords ==
  [][(FailedCycleSettles /\ everOk) => inquiries' = inquiries]_vars

\* C2: after the cleanup of the mount effect neither the records nor the loading
\* flag is written, even when a fetch in flight at the cleanup settles.
C2_NoWriteAfterTeardown ==
  [][phase = "unmounted" => (inquiries' = inquiries /\ loading' = loading)]_vars

\* C3: while isAuthenticated is false no fetch has been issued and the refresh
\* timer is not set.
C3_NoFetchBeforeAdmission ==
  ~isAuthenticated => (issued = 0 /\ ~interval)

\* C4: what the caller of fetchSheetData receives from a failed fetch is never what
\* it receives from a successful fetch of some sheet.
C4_FailureIsExplicit ==
  last.kind \in FailureKinds =>
    \A results \in Sheets :
      <<last.outcome, last.value>> # <<"resolved", Complete(results)>>

\* C5: while a fetch after the first is outstanding, the records are those of the
\* last fetch that succeeded.
C5_NoFlashToEmpty ==
  (\E c \in calls : c.id > 1) => inquiries = lastGood

\* C6 as stated: while a fetch started by a tick is outstanding, loading is true.
C6_TickEntersLoading ==
  (\E c \in calls : c.byTick) => loading

\* C6 as amended: a tick of the refresh timer starts a fetch and leaves the loading
\* flag as it is; once a fetch cycle has settled, loading is false also while
\* fetches started by ticks are outstanding.
C6_TickKeepsLoading ==
  [][ /\ TickStartsFetch => loading' = loading
      /\ ((\E c \in calls' : c.byTick) /\ settled' > 0) => ~loading' ]_vars

C6_Witness ==
  /\ \E c \in calls : c.byTick
  /\ settled > 0
  /\ ~loading

\* C7: when a fetch cycle settles, succeeded or failed, loading is false after it;
\* and if every started fetch settles in the end, loading becomes false after mount.
C7_LoadingReturnsFalse ==
  /\ [][settled' # settled => ~loading']_vars
  /\ (phase = "mounted") ~> ~loading

C7_Witness ==
  /\ last.outcome = "rejected"
  /\ everOk
  /\ ~loading

\* C8 as stated: from mount, while the fetch issued at mount is outstanding,
\* loading is true and the records are empty.
C8_UntilFirstFetchSettles ==
  (phase # "constructed" /\ \E c \in calls : c.id = 1) =>
    (loading /\ inquiries = <<>>)

\* C8 as amended: from mount until the first fetch cycle settles, whichever fetch
\* that is, loading is true and the records are empty.
C8_UntilFirstSettlement ==
  settled = 0 => (loading /\ inquiries = <<>>)

C8_Witness ==
  /\ phase = "mounted"
  /\ settled = 0
  /\ issued >= 2
  /\ \E c \in calls : c.pc = "text"

\* C9: the cleanup clears both timers in one step; after it no tick of the refresh
\* timer starts a fetch and no tick of the clock updates currentTime.
C9_TeardownStopsTimers ==
  [][ /\ phase' = "unmounted" => (~interval' /\ ~clock')
      /\ phase = "unmounted" => (issued' = issued /\ currentTime' = currentTime) ]_vars

C9_Witness ==
  /\ phase = "unmounted"
  /\ issued >= 2 /\ issued < MaxFetches
  /\ currentTime >= 1 /\ currentTime < MaxClock
  /\ calls # {}

\* C10: the records are the initial empty set or the whole value of one single
\* fetchSheetData call.
C10_WholesaleReplace ==
  inquiries = <<>> \/ inquiries \in returned

C10_Witness ==
  /\ settled >= 2
  /\ Cardinality(returned) >= 2
  /\ Len(inquiries) = 2

\* C15: a fetch cycle whose text Papa.parse reports as malformed (an unterminated
\* quote, a row with too few or too many cells) fails: the call is rejected and
\* no record set built from its rows reaches the caller.
C15_MalformedIsParseFailure ==
  last.kind = "malformed" => last.outcome = "rejected"

\* C26: a fetch is started only by the mount effect or by a tick of the refresh
\* timer, one per tick, and never in the step in which a cycle settles, whatever
\* its outcome: a failed cycle is not retried before the next tick.
C26_NoRetryWithinCycle ==
  [][ /\ issued' # issued =>
           (issued' = issued + 1 /\ settled' = settled /\ (Mount \/ Tick))
      /\ settled' # settled => (issued' = issued /\ calls' \subseteq calls) ]_vars

\* A cycle has failed and a fetch started by a tick is outstanding after it.
C26_Witness ==
  /\ last.kind \in FailureKinds
  /\ \E c \in calls : c.byTick /\ c.id > last.id

\* C28: a fetch that resolves right after a fetch issued later has resolved does
\* not exist: the results are installed in the order the fetches were issued.
C28_InstalledInIssueOrder ==
  [][(settled' = settled + 1 /\ last'.outcome = "resolved" /\ last.outcome = "resolved")
       => last'.id > last.id]_vars

\* C29: the dashboard is rendered only when isAuthenticated is true and loading is
\* false; while isAuthenticated is false the spinner or the Login screen is
\* rendered; isAuthenticated never goes from true to false.
C29_RenderGate ==
  /\ [](View = "dashboard" => (isAuthenticated /\ ~loading))
  /\ [](~isAuthenticated => View \in {"spinner", "login"})
  /\ [][isAuthenticated => isAuthenticated']_vars

\* Records are held and loading is over, the visitor is not yet admitted: the
\* Login screen is rendered.
C29_Witness ==
  /\ ~isAuthenticated
  /\ ~loading
  /\ inquiries # <<>>
  /\ View = "login"

----------------------------------------------------------------------------
\* parseNumber on its own

\* App as constructed, taking no step.
AppAtRest ==
  /\ dashboard_auth = FALSE
  /\ isAuthenticated = FALSE
  /\ inquiries = <<>>
  /\ loading = TRUE
  /\ currentTime = 0
  /\ phase = "constructed"
  /\ interval = FALSE
  /\ clock = FALSE
  /\ calls = {}
  /\ issued = 0
  /\ settled = 0
  /\ last = NoCall
  /\ everOk = FALSE
  /\ lastGood = <<>>
  /\ returned = {}

\* The characters cell texts are drawn from.
Alphabet == {"1", "5", ".", "-", "$", " "}

\* Every text of at most n characters.
Texts(n) == UNION {[1..k -> Alphabet] : k \in 0..n}

\* "$1,234.50"
ExampleText == <<"$", "1", ",", "2", "3", "4", ".", "5", "0">>

\* A text of more digits than Number.MAX_VALUE has.
LongDigits == [i \in 1..(MaxFiniteDigits + 1) |-> "9"]

CoerceInputs == Texts(MaxLen) \cup {Undefined, ExampleText, LongDigits}

CoerceInit ==
  /\ AppAtRest
  /\ coerce \in {[done |-> FALSE, text |-> t] : t \in CoerceInputs}
  /\ ingest = Idle
  /\ request = Idle
  /\ window = Idle

\* parseNumber(text)
ParseNumberCall ==
  /\ ~coerce.done
  /\ coerce' = [done |-> TRUE, text |-> coerce.text, result |-> parseNumber(coerce.text)]
  /\ UNCHANGED <<appVars, ingest, request, window>>

CoerceNext == ParseNumberCall

CoerceSpec == CoerceInit /\ [][CoerceNext]_vars

\* C11: parseNumber returns a finite number for every text; it returns 0 when the
\* text is absent or empty or what is left after stripping is not a finite number;
\* "$1,234.50" gives 1234.50.
C11_CoerceFiniteDefaultZero ==
  coerce.done =>
    /\ IsFinite(coerce.result)
    /\ (coerce.text \in {Undefined, EmptyText}) => coerce.result = Zero
    /\ (coerce.text \notin {Undefined, EmptyText}
          /\ ~IsFinite(ToNumber(Cleaned(coerce.text)))) => coerce.result = Zero
    /\ coerce.text = ExampleText => coerce.result = Num(1234 * Scale + (Scale \div 2))

----------------------------------------------------------------------------
\* The row mapping of each data service on its own: one row in, the records out

\* The cell texts a row is drawn from.
CellTexts ==
  {Undefined, <<>>, <<" ", " ">>, <<"$", "5">>, <<"-">>, <<" ", "A", " ">>}

RouteTexts == {Undefined, <<" ", "A", Arrow, "B", " ">>}

InquiryFields == <<"", "MONTH", "VESSEL NAME", "PDA / QTN VALUE">>

ShipmentFields == <<"Shipment ID", "Vessel Name", "Revenue ($)", "Route (Origin-Dest)">>

Range(seq) == {seq[i] : i \in 1..Len(seq)}

InquiryRows == [Range(InquiryFields) -> CellTexts]

ShipmentRows ==
  {row \in [Range(ShipmentFields) -> CellTexts \cup RouteTexts] :
     /\ row["Route (Origin-Dest)"] \in RouteTexts
     /\ \A h \in Range(ShipmentFields) \ {"Route (Origin-Dest)"} : row[h] \in CellTexts}

\* Texts of Math.floor(Math.random() * 10000)
RandomTexts == {<<"7">>, <<"4", "2">>}

\* Text of new Date().toISOString().split('T')[0]
IsoToday == <<"2", "0", "2", "6", "-", "0", "2", "-", "1", "9">>

IngestInit ==
  /\ AppAtRest
  /\ coerce = Idle
  /\ ingest \in {[done |-> FALSE, shape |-> "inquiry", row |-> r] : r \in InquiryRows}
                  \cup {[done |-> FALSE, shape |-> "shipment", row |-> r] : r \in ShipmentRows}
  /\ request = Idle
  /\ window = Idle

\* The complete callback of the inquiry data service on a sheet of this one row.
IngestInquiry ==
  /\ ~ingest.done
  /\ ingest.shape = "inquiry"
  /\ ingest' = [ingest EXCEPT !.done = TRUE] @@
                 [out |-> Complete([fields |-> InquiryFields, data |-> <<ingest.row>>])]
  /\ UNCHANGED <<appVars, coerce, request, window>>

\* The complete callback of the shipment data service on a sheet of this one row.
IngestShipment ==
  /\ ~ingest.done
  /\ ingest.shape = "shipment"
  /\ \E random \in RandomTexts :
       ingest' = [ingest EXCEPT !.done = TRUE] @@
                   [out |-> CompleteShipment([fields |-> ShipmentFields,
                                              data |-> <<ingest.row>>], random, IsoToday)]
  /\ UNCHANGED <<appVars, coerce, request, window>>

IngestNext == IngestInquiry \/ IngestShipment

IngestSpec == IngestInit /\ [][IngestNext]_vars

\* A cell that is absent, empty or only whitespace.
Blank(cell) == cell = Undefined \/ Trim(cell) = EmptyText

\* A cell that is absent or holds no number.
NonNumeric(cell) ==
  cell = Undefined \/ Cleaned(cell) = EmptyText \/ ~IsFinite(ToNumber(Cleaned(cell)))

\* The header the primary value of a shape is read from, and the field it goes to.
PrimaryHeader(shape) == IF shape = "inquiry" THEN "PDA / QTN VALUE" ELSE "Revenue ($)"

PrimaryField(shape) == IF shape = "inquiry" THEN "qtnValue" ELSE "revenue"

NameHeader(shape) == IF shape = "inquiry" THEN "VESSEL NAME" ELSE "Vessel Name"

NumberFields(shape) ==
  IF shape = "inquiry" THEN InquiryNumberFields ELSE ShipmentNumberFields

\* C12: in the records of both shapes every numeric field is a finite number, and
\* it is 0 when its source cell is absent or holds no number.
C12_NumericFieldsFinite ==
  ingest.done =>
    \A i \in 1..Len(ingest.out) :
      /\ \A f \in NumberFields(ingest.shape) : IsFinite(ingest.out[i][f])
      /\ NonNumeric(ingest.row[PrimaryHeader(ingest.shape)]) =>
           ingest.out[i][PrimaryField(ingest.shape)] = Zero

\* C13: in the inquiry records every string field is a text (never absent) without
\* leading or trailing whitespace.
C13_StringFieldsTrimmed ==
  (ingest.done /\ ingest.shape = "inquiry") =>
    \A i \in 1..Len(ingest.out) : \A f \in InquiryStringFields :
      /\ ingest.out[i][f] # Undefined
      /\ Trim(ingest.out[i][f]) = ingest.out[i][f]

\* C14: an inquiry record is kept exactly if its name is not empty or its value or
\* its identifier number is positive; in both shapes a row of blank cells is dropped
\* and a row with a positive primary value and an empty name is kept.
C14_RowFilter ==
  ingest.done =>
    LET row     == ingest.row
        kept    == ingest.out # <<>>
        name    == row[NameHeader(ingest.shape)]
        primary == row[PrimaryHeader(ingest.shape)]
    IN  /\ ingest.shape = "inquiry" =>
             (kept <=> \/ ~Blank(name)
                       \/ Positive(parseNumber(primary))
                       \/ Positive(parseNumber(row[""])))
        /\ (\A h \in DOMAIN row : Blank(row[h])) => ~kept
        /\ (Positive(parseNumber(primary)) /\ Blank(name)) => kept

----------------------------------------------------------------------------
\* The requests of the refresh cycles on their own

\* const REFRESH_INTERVAL = 20 * 1000
REFRESH_INTERVAL == 20000

\* The most a timer fires late, in milliseconds.
MaxDelay == 4

\* The three data services: the inquiry service with and without the timestamp
\* parameter, and the shipment service.
Services == {"inquiry", "inquiry-plain", "shipment"}

\* The URL handed to fetch: the sheet and the query parameters added to it.
\* `${GOOGLE_SHEET_CSV_URL}&t=${Date.now()}` or GOOGLE_SHEET_CSV_URL alone.
RequestUrl(service, now) ==
  [sheet  |-> IF service = "shipment" THEN "shipments" ELSE "inquiries",
   params |-> IF service = "inquiry" THEN <<<<"t", now>>>> ELSE <<>>]

\* The mount effect calls loadData: the first request, at some Date.now().
RequestInit ==
  /\ AppAtRest
  /\ coerce = Idle
  /\ ingest = Idle
  /\ window = Idle
  /\ \E service \in Services, now \in 0..MaxDelay :
       request = [done |-> TRUE, service |-> service, now |-> now,
                  urls |-> <<RequestUrl(service, now)>>]

\* The refresh timer fires REFRESH_INTERVAL or more after the previous cycle and
\* loadData issues the next request.
RequestTick ==
  /\ Len(request.urls) <= MaxFetches
  /\ \E delay \in 0..MaxDelay :
       LET now == request.now + REFRESH_INTERVAL + delay
       IN  request' = [request EXCEPT
                         !.now = now,
                         !.urls = Append(@, RequestUrl(request.service, now))]
  /\ UNCHANGED <<appVars, coerce, ingest, window>>

RequestNext == RequestTick

RequestSpec == RequestInit /\ [][RequestNext]_vars

\* C16: every request carries a cache-busting parameter and no two fetch cycles
\* request the same URL.
C16_RequestsDiffer ==
  request.done =>
    /\ \A i \in 1..Len(request.urls) : request.urls[i].params # <<>>
    /\ \A i, j \in 1..Len(request.urls) :
         i # j => request.urls[i] # request.urls[j]

\* The same property of the inquiry service that adds the timestamp.
C16_TimestampedRequestsDiffer ==
  (request.done /\ request.service = "inquiry") =>
    /\ \A i \in 1..Len(request.urls) : request.urls[i].params # <<>>
    /\ \A i, j \in 1..Len(request.urls) :
         i # j => request.urls[i] # request.urls[j]

----------------------------------------------------------------------------
\* The reporting window of App: filteredInquiries, stats and CategoryCard

LowerCase ==
  <<"a", "b", "c", "d", "e", "f", "g", "h", "i", "j", "k", "l", "m", "n", "o", "p", "q", "r", "s", "t", "u", "v", "w", "x", "y", "z">>

UpperCase ==
  <<"A", "B", "C", "D", "E", "F", "G", "H", "I", "J", "K", "L", "M", "N", "O", "P", "Q", "R", "S", "T", "U", "V", "W", "X", "Y", "Z">>

\* String.prototype.toUpperCase, on the letters a to z
ToUpperCase(s) ==
  [i \in 1..Len(s) |->
     IF \E k \in 1..Len(LowerCase) : LowerCase[k] = s[i]
       THEN UpperCase[CHOOSE k \in 1..Len(LowerCase) : LowerCase[k] = s[i]]
       ELSE s[i]]

\* String.prototype.includes
Includes(s, sub) ==
  \E i \in 1..(Len(s) - Len(sub) + 1) : SubSeq(s, i, i + Len(sub) - 1) = sub

\* date.toLocaleString('default', { month: 'long' }) of month 1..12, in an
\* English locale.
MonthNames ==
  << <<"J", "a", "n", "u", "a", "r", "y">>,
     <<"F", "e", "b", "r", "u", "a", "r", "y">>,
     <<"M", "a", "r", "c", "h">>,
     <<"A", "p", "r", "i", "l">>,
     <<"M", "a", "y">>,
     <<"J", "u", "n", "e">>,
     <<"J", "u", "l", "y">>,
     <<"A", "u", "g", "u", "s", "t">>,
     <<"S", "e", "p", "t", "e", "m", "b", "e", "r">>,
     <<"O", "c", "t", "o", "b", "e", "r">>,
     <<"N", "o", "v", "e", "m", "b", "e", "r">>,
     <<"D", "e", "c", "e", "m", "b", "e", "r">> >>

MonthLong(date) == MonthNames[date.month]

IsLeap(y) == (y % 4 = 0 /\ y % 100 # 0) \/ y % 400 = 0

DaysIn(y, m) ==
  IF m = 2 THEN (IF IsLeap(y) THEN 29 ELSE 28)
  ELSE IF m \in {4, 6, 9, 11} THEN 30 ELSE 31

\* Date.prototype.setDate(n) for n from 0 to the length of the month: day 0 is
\* the last day of the month before, in the year before when the month is January.
SetDate(date, n) ==
  IF n >= 1 THEN [date EXCEPT !.date = n]
  ELSE IF date.month > 1
    THEN [year |-> date.year, month |-> date.month - 1,
          date |-> DaysIn(date.year, date.month - 1)]
    ELSE [year |-> date.year - 1, month |-> 12, date |-> 31]

\* Faulty variant of Yesterday: the day before within the same month and year.
YesterdaySameMonth(today) == [today EXCEPT !.date = today.date - 1]

\* yesterday = new Date(today); yesterday.setDate(today.getDate() - 1)
Yesterday(today) == SetDate(today, today.date - 1)

\* The filter of filteredInquiries, for new Date() falling on the day today.
SelectWindow(items, today) ==
  LET yesterday        == Yesterday(today)
      currentYear      == today.year
      currentDate      == today.date
      currentMonthName == ToUpperCase(MonthLong(today))
      prevYear         == yesterday.year
      prevDate         == yesterday.date
      prevMonthName    == ToUpperCase(MonthLong(yesterday))
      InWindow(item) ==
        LET itemMonth   == ToUpperCase(OrEmpty(item.month))
            isToday     == /\ item.year = Num(currentYear * Scale)
                           /\ item.date = Num(currentDate * Scale)
                           /\ Includes(itemMonth, currentMonthName)
            isYesterday == /\ item.year = Num(prevYear * Scale)
                           /\ item.date = Num(prevDate * Scale)
                           /\ Includes(itemMonth, prevMonthName)
        IN  isToday \/ isYesterday
  IN  SelectSeq(items, InWindow)

\* a + b on numbers (sums stay far below Number.MAX_VALUE)
Add(a, b) ==
  IF a.nan \/ b.nan THEN NaN
  ELSE IF a.inf /\ b.inf THEN (IF a.v = b.v THEN a ELSE NaN)
  ELSE IF a.inf THEN a
  ELSE IF b.inf THEN b
  ELSE Num(a.v + b.v)

\* n || 0 : 0 and NaN are falsy
OrZero(n) == IF n.nan \/ (~n.inf /\ n.v = 0) THEN Zero ELSE n

\* items.reduce((acc, s) => acc + s[field], 0), with s[field] || 0 when orZero
RECURSIVE SumField(_, _, _)
SumField(items, field, orZero) ==
  IF items = <<>> THEN Zero
  ELSE LET head == items[Len(items)][field]
       IN  Add(SumField(SubSeq(items, 1, Len(items) - 1), field, orZero),
               IF orZero THEN OrZero(head) ELSE head)

\* items.filter(s => s[field] === text).length
CountField(items, field, text) ==
  Cardinality({i \in 1..Len(items) : items[i][field] = text})

Confirmed == <<"C", "O", "N", "F", "I", "R", "M", "E", "D">>

\* The stats memo over filteredInquiries.
Stats(items) ==
  [ totalQtnValue   |-> SumField(items, "qtnValue", FALSE),
    totalCost       |-> SumField(items, "qtnCost", TRUE),
    totalProfit     |-> SumField(items, "qtnProfit", FALSE),
    totalQtnMargin  |-> SumField(items, "qtnMargin", TRUE),
    totalInquiries  |-> Len(items),
    confirmedOrders |-> CountField(items, "update", Confirmed) ]

\* Faulty variant of Percentage: the share of the total in the count.
PercentageOfCount(count, total) ==
  IF count > 0 THEN (200 * total + count) \div (2 * count) ELSE 0

\* CategoryCard: total > 0 ? Math.round((count / total) * 100) : 0
Percentage(count, total) ==
  IF total > 0 THEN (200 * count + total) \div (2 * total) ELSE 0

\* The categories of the three CategoryCards.
Categories == {<<"P", "R", "O">>, <<"D", "E", "C">>, <<"E", "N", "G">>}

\* The percentage each CategoryCard shows.
CategoryCards(items) ==
  [c \in Categories |->
     Percentage(CountField(items, "category", c), Stats(items).totalInquiries)]

----------------------------------------------------------------------------
\* The reporting window on its own: the records are replaced and days pass

\* Days that pass while App is mounted.
MaxDays == 2

DigitChar(n) == CHOOSE c \in Digits : DigitVal(c) = n

\* The decimal text of a natural number, as a sheet holds it.
RECURSIVE Decimal(_)
Decimal(n) ==
  IF n < 10 THEN <<DigitChar(n)>> ELSE Decimal(n \div 10) \o <<DigitChar(n % 10)>>

WindowHeaders ==
  <<"", "YEAR", "MONTH", "DATE", "CATEGORY", "UPDATE", "PDA / QTN VALUE">>

WindowRow(n, y, m, d, category, update, value) ==
  [h \in Range(WindowHeaders) |->
     CASE h = "" -> Decimal(n) [] h = "YEAR" -> Decimal(y) [] h = "MONTH" -> m
       [] h = "DATE" -> Decimal(d) [] h = "CATEGORY" -> category
       [] h = "UPDATE" -> update [] h = "PDA / QTN VALUE" -> Decimal(value)]

\* Records dated 19, 18 and 17 FEBRUARY 2026.
ExampleSheet ==
  [fields |-> WindowHeaders, errors |-> {},
   data |-> << WindowRow(1, 2026, <<"F", "E", "B", "R", "U", "A", "R", "Y">>, 19, <<"P", "R", "O">>, <<"C", "O", "N", "F", "I", "R", "M", "E", "D">>, 100),
             WindowRow(2, 2026, <<"F", "E", "B", "R", "U", "A", "R", "Y">>, 18, <<"D", "E", "C">>, <<"S", "E", "N", "T">>, 50),
             WindowRow(3, 2026, <<"F", "E", "B", "R", "U", "A", "R", "Y">>, 17, <<"P", "R", "O">>, <<"P", "E", "N", "D", "I", "N", "G">>, 25) >>]

\* Records of 19 February 2026 whose month is held in several forms.
ShortFormSheet ==
  [fields |-> WindowHeaders, errors |-> {},
   data |-> << WindowRow(1, 2026, <<"F", "e", "b">>, 19, <<"E", "N", "G">>, <<"S", "E", "N", "T">>, 10),
             WindowRow(2, 2026, <<"f", "e", "b">>, 19, <<"P", "R", "O">>, <<"S", "E", "N", "T">>, 20),
             WindowRow(3, 2026, <<"F", "E", "B", "R", "U", "A", "R", "Y">>, 19, <<"P", "R", "O">>, <<"C", "O", "N", "F", "I", "R", "M", "E", "D">>, 30),
             WindowRow(4, 2026, <<" ", "f", "e", "b", "r", "u", "a", "r", "y", " ", "2", "0", "2", "6">>, 18, <<>>, <<>>, 0) >>]

\* Records around the ends of February 2026 and February 2024.
RolloverSheet ==
  [fields |-> WindowHeaders, errors |-> {},
   data |-> << WindowRow(1, 2026, <<"F", "E", "B", "R", "U", "A", "R", "Y">>, 28, <<"P", "R", "O">>, <<"S", "E", "N", "T">>, 10),
             WindowRow(2, 2026, <<"F", "E", "B", "R", "U", "A", "R", "Y">>, 1, <<"D", "E", "C">>, <<"S", "E", "N", "T">>, 20),
             WindowRow(3, 2026, <<"M", "A", "R", "C", "H">>, 28, <<"E", "N", "G">>, <<"S", "E", "N", "T">>, 30),
             WindowRow(4, 2026, <<"M", "A", "R", "C", "H">>, 1, <<"E", "N", "G">>, <<"C", "O", "N", "F", "I", "R", "M", "E", "D">>, 40),
             WindowRow(5, 2024, <<"F", "E", "B", "R", "U", "A", "R", "Y">>, 29, <<"P", "R", "O">>, <<"S", "E", "N", "T">>, 50),
             WindowRow(6, 2024, <<"M", "A", "R", "C", "H">>, 1, <<"D", "E", "C">>, <<"S", "E", "N", "T">>, 60),
             WindowRow(7, 2026, <<"M", "A", "R", "C", "H">>, 1, <<"P", "R", "O">>, <<"S", "E", "N", "T">>, 70) >>]

\* Records around the end of 2025.
YearEndSheet ==
  [fields |-> WindowHeaders, errors |-> {},
   data |-> << WindowRow(1, 2025, <<"D", "E", "C", "E", "M", "B", "E", "R">>, 31, <<"D", "E", "C">>, <<"C", "O", "N", "F", "I", "R", "M", "E", "D">>, 10),
             WindowRow(2, 2026, <<"D", "E", "C", "E", "M", "B", "E", "R">>, 31, <<"P", "R", "O">>, <<"S", "E", "N", "T">>, 20),
             WindowRow(3, 2025, <<"J", "A", "N", "U", "A", "R", "Y">>, 1, <<"P", "R", "O">>, <<"S", "E", "N", "T">>, 30),
             WindowRow(4, 2026, <<"J", "A", "N", "U", "A", "R", "Y">>, 1, <<"E", "N", "G">>, <<"S", "E", "N", "T">>, 40) >>]

WindowSheets == {ExampleSheet, ShortFormSheet, RolloverSheet, YearEndSheet}

Day(y, m, d) == [year |-> y, month |-> m, date |-> d]

\* The days new Date() falls on when App is mounted.
ReferenceDays ==
  {Day(2026, 2, 18), Day(2026, 2, 28), Day(2024, 2, 28), Day(2025, 12, 31),
   Day(2026, 3, 30)}

\* The day after, on the calendar.
NextDay(day) ==
  IF day.date < DaysIn(day.year, day.month) THEN [day EXCEPT !.date = @ + 1]
  ELSE IF day.month < 12 THEN Day(day.year, day.month + 1, 1)
  ELSE Day(day.year + 1, 1, 1)

\* The first render: inquiries is [] and the memo is computed over it.
WindowInit ==
  /\ AppAtRest
  /\ coerce = Idle
  /\ ingest = Idle
  /\ request = Idle
  /\ \E today \in ReferenceDays :
       window = [done |-> TRUE, today |-> today, days |-> 0, recs |-> <<>>,
                 filtered |-> SelectWindow(<<>>, today), computedOn |-> today]

\* setInquiries(data): inquiries is a new array, so the render that follows
\* computes the memo again, with new Date() of that render.
WindowSetInquiries ==
  /\ \E results \in WindowSheets :
       LET data == Complete(results)
       IN  window' = [window EXCEPT
                        !.recs = data,
                        !.filtered = SelectWindow(data, window.today),
                        !.computedOn = window.today]
  /\ UNCHANGED <<appVars, coerce, ingest, request>>

\* Midnight passes and the display clock renders App again: inquiries is the
\* same array, so the memo (dependencies [inquiries]) is not computed again.
WindowDayPasses ==
  /\ window.days < MaxDays
  /\ window' = [window EXCEPT !.today = NextDay(@), !.days = @ + 1]
  /\ UNCHANGED <<appVars, coerce, ingest, request>>

WindowNext ==
  \/ WindowSetInquiries
  \/ WindowDayPasses

WindowSpec == WindowInit /\ [][WindowNext]_vars

----------------------------------------------------------------------------
\* Properties of the reporting window

\* Days since a fixed day, on the proleptic Gregorian calendar.
DayNumber(day) ==
  LET y == day.year - 1
      RECURSIVE Before(_)
      Before(m) == IF m = 1 THEN 0 ELSE Before(m - 1) + DaysIn(day.year, m - 1)
  IN  365 * y + (y \div 4) - (y \div 100) + (y \div 400) + Before(day.month) + day.date

\* The calendar day whose number is one less.
DayBefore(day) ==
  CHOOSE prev \in {Day(y, m, d) : y \in {day.year - 1, day.year}, m \in 1..12, d \in 1..31} :
    /\ prev.date <= DaysIn(prev.year, prev.month)
    /\ DayNumber(prev) = DayNumber(day) - 1

\* The record's (year, day-of-month, month) is that of the day.
OnDay(item, day) ==
  /\ item.year = Num(day.year * Scale)
  /\ item.date = Num(day.date * Scale)
  /\ Includes(ToUpperCase(item.month), ToUpperCase(MonthNames[day.month]))

\* sub holds exactly the elements of items at the positions in keep, in the
\* order of items.
IsSelection(sub, items, keep) ==
  /\ Len(sub) = Cardinality(keep)
  /\ \A k \in 1..Len(sub) :
       sub[k] = items[CHOOSE i \in keep : Cardinality({j \in keep : j < i}) = k - 1]

\* The memo was computed in a render of the day it is now.
MemoIsFresh == window.done /\ window.computedOn = window.today

\* C17: the window selection returns, in their order, exactly the records of
\* today and of the calendar day before (across a month or a year end); on
\* 2026-02-19, of the records dated 19, 18 and 17 FEBRUARY 2026 it returns the
\* first two.
C17_WindowSelection ==
  MemoIsFresh =>
    /\ IsSelection(window.filtered, window.recs,
                   {i \in 1..Len(window.recs) :
                      \/ OnDay(window.recs[i], window.today)
                      \/ OnDay(window.recs[i], DayBefore(window.today))})
    /\ (window.today = Day(2026, 2, 19) /\ window.recs = Complete(ExampleSheet))
         => window.filtered = SubSeq(window.recs, 1, 2)

\* The window computed on 1 March 2026 holds the record of 28 February.
C17_Witness ==
  /\ MemoIsFresh
  /\ window.today = Day(2026, 3, 1)
  /\ Len(window.filtered) = 3
  /\ window.filtered[1].date = Num(28 * Scale)

\* The value a percentage is the rounding of: count / total * 100 to the nearest
\* integer, a half upwards.
IsRounded(pct, count, total) ==
  /\ 2 * (pct * total - 100 * count) <= total
  /\ 2 * (100 * count - pct * total) < total

\* C18: over an empty subset every sum and count is 0 and every percentage is 0;
\* over a subset that is not empty every percentage is round(count / total * 100)
\* and lies between 0 and 100.
C18_StatsOfSubset ==
  window.done =>
    LET items == window.filtered
        stats == Stats(items)
        cards == CategoryCards(items)
    IN  /\ items = <<>> =>
             /\ stats = [totalQtnValue |-> Zero, totalCost |-> Zero,
                         totalProfit |-> Zero, totalQtnMargin |-> Zero,
                         totalInquiries |-> 0, confirmedOrders |-> 0]
             /\ \A c \in Categories : cards[c] = 0
        /\ items # <<>> =>
             \A c \in Categories :
               /\ cards[c] \in 0..100
               /\ IsRounded(cards[c], CountField(items, "category", c), Len(items))

\* Two of the three records in the window are PRO: the card shows 67%.
C18_Witness ==
  /\ window.done
  /\ Len(window.filtered) = 3
  /\ CategoryCards(window.filtered)[<<"P", "R", "O">>] = 67

\* C19: the subset on display is the window of the day it is now, whether the
\* records were replaced since the day changed or not.
C19_SubsetFollowsTheDay ==
  window.done => window.filtered = SelectWindow(window.recs, window.today)

\* text is the full name of the month or its first three letters or more, in
\* any case.
IsFormOf(text, name) ==
  /\ Len(text) >= 3
  /\ Len(text) <= Len(name)
  /\ ToUpperCase(text) = ToUpperCase(SubSeq(name, 1, Len(text)))

\* C20: a record of today's year and day whose month is a short form or the long
\* form of today's month, in any case, is selected.
C20_MonthForms ==
  MemoIsFresh =>
    \A i \in 1..Len(window.recs) :
      LET item == window.recs[i]
      IN  (/\ item.year = Num(window.today.year * Scale)
           /\ item.date = Num(window.today.date * Scale)
           /\ IsFormOf(item.month, MonthNames[window.today.month]))
            => item \in Range(window.filtered)

----------------------------------------------------------------------------
\* Header resolution and row mapping on their own: one sheet of one row, mapped
\* twice by the complete callback of a data service

\* The row mapping of the earlier inquiry data service: rowNum is read from the
\* header '' and folderNumber from the header 'FOLDER NUMBER'.
MapRowFixed(row) ==
  [MapRow(row, "") EXCEPT !.folderNumber = OrEmpty(Cell(row, "FOLDER NUMBER"))]

\* The data services: the inquiry service, the earlier inquiry service with the
\* fixed identifier headers, and the shipment service.
MapServices == {"inquiry", "inquiry-fixed", "shipment"}

\* results.data.map(...) of a data service.
ParsedData(service, results, random, today) ==
  [i \in 1..Len(results.data) |->
     CASE service = "inquiry" -> MapRow(results.data[i], FirstHeader(results.fields))
       [] service = "inquiry-fixed" -> MapRowFixed(results.data[i])
       [] service = "shipment" -> MapShipment(results.data[i], random, today)]

\* parsedData.filter(...) of a data service.
ValidData(service, parsedData) ==
  IF service = "shipment" THEN SelectSeq(parsedData, IsValidShipment)
  ELSE Filter(parsedData)

\* The header lists observed in an inquiry sheet.
InquiryHeaderLists ==
  { <<"", "WEEK ", "WEEK">>,
    <<"FOLDER NUMBER", "WEEK">>,
    <<"No.", "PDA / QTN  COST", "PDA / QTN COST">>,
    <<"", "FOLDER NUMBER">>,
    <<"FOLDER NUMBER", "">>,
    <<"CONTACT PERSON ", "CONTACT PERSON">>,
    <<"VESSEL NAME">> }

\* The header lists observed in a shipment sheet.
ShipmentHeaderLists ==
  { <<"Shipment ID", "Vessel Name", "Revenue ($)">>,
    <<"Vessel Name", "Date (Dep.)">>,
    <<"Revenue ($)">> }

\* The texts of a cell under a header that is present.
HeaderCells == {<<>>, <<"7">>, <<" ", "W", " ">>}

\* Texts of new Date().toISOString().split('T')[0] on two days.
IsoDays == {IsoToday, <<"2", "0", "2", "6", "-", "0", "2", "-", "2", "0">>}

ResolveInit ==
  /\ AppAtRest
  /\ coerce = Idle
  /\ request = Idle
  /\ window = Idle
  /\ \E service \in MapServices :
       \E fields \in (IF service = "shipment" THEN ShipmentHeaderLists
                      ELSE InquiryHeaderLists) :
         \E row \in [Range(fields) -> HeaderCells] :
           ingest = [done |-> FALSE, service |-> service, fields |-> fields,
                     row |-> row, calls |-> 0, parsed |-> <<>>, out |-> <<>>,
                     parsedAgain |-> <<>>, again |-> <<>>]

\* The complete callback runs on the sheet: the rows are mapped and filtered.
ResolveComplete ==
  /\ ~ingest.done
  /\ ingest.calls = 0
  /\ \E random \in RandomTexts, today \in IsoDays :
       LET parsedData == ParsedData(ingest.service,
                                    [fields |-> ingest.fields, data |-> <<ingest.row>>],
                                    random, today)
       IN  ingest' = [ingest EXCEPT !.calls = 1, !.parsed = parsedData,
                                    !.out = ValidData(ingest.service, parsedData)]
  /\ UNCHANGED <<appVars, coerce, request, window>>

\* The complete callback runs again on the same sheet (the next refresh cycle).
ResolveCompleteAgain ==
  /\ ~ingest.done
  /\ ingest.calls = 1
  /\ \E random \in RandomTexts, today \in IsoDays :
       LET parsedData == ParsedData(ingest.service,
                                    [fields |-> ingest.fields, data |-> <<ingest.row>>],
                                    random, today)
       IN  ingest' = [ingest EXCEPT !.calls = 2, !.done = TRUE,
                                    !.parsedAgain = parsedData,
                                    !.again = ValidData(ingest.service, parsedData)]
  /\ UNCHANGED <<appVars, coerce, request, window>>

ResolveNext ==
  \/ ResolveComplete
  \/ ResolveCompleteAgain

ResolveSpec == ResolveInit /\ [][ResolveNext]_vars

----------------------------------------------------------------------------
\* Properties of header resolution and row mapping

\* The header aliases of the canonical fields that have several, in priority order.
Aliases ==
  [ week          |-> <<"WEEK ", "WEEK">>,
    qtnCost       |-> <<"PDA / QTN  COST", "PDA / QTN COST">>,
    contactPerson |-> <<"CONTACT PERSON ", "CONTACT PERSON">> ]

\* The cell of the first alias that is among the observed headers; absent when
\* none is.
ResolvedCell(aliases, fields, row) ==
  LET present == {k \in 1..Len(aliases) : aliases[k] \in Range(fields)}
  IN  IF present = {} THEN Undefined
      ELSE Cell(row, aliases[CHOOSE k \in present : \A j \in present : k <= j])

\* The record of the only row, as mapped by the first run of the callback.
Mapped == ingest.parsed[1]

\* C21: a field with several header aliases holds the cell of the first alias, in
\* priority order, that is among the observed headers, also when that cell is
\* empty and a later alias has a text.
C21_FirstPresentAlias ==
  (ingest.done /\ ingest.service = "inquiry") =>
    /\ Mapped.week = OrEmpty(ResolvedCell(Aliases.week, ingest.fields, ingest.row))
    /\ Mapped.qtnCost = parseNumber(ResolvedCell(Aliases.qtnCost, ingest.fields, ingest.row))
    /\ Mapped.contactPerson =
         Trim(OrEmpty(ResolvedCell(Aliases.contactPerson, ingest.fields, ingest.row)))

\* C22: the identifier fields of an inquiry record hold the cell under the header
\* at position 0 of the observed header list, whatever its text.
C22_IdentifierIsFirstColumn ==
  (ingest.done /\ ingest.service \in {"inquiry", "inquiry-fixed"}) =>
    /\ Mapped.folderNumber = OrEmpty(Cell(ingest.row, ingest.fields[1]))
    /\ Mapped.rowNum = parseNumber(Cell(ingest.row, ingest.fields[1]))

\* The same property of the inquiry service that binds the first header.
C22_DynamicFirstColumn ==
  (ingest.done /\ ingest.service = "inquiry") =>
    /\ Mapped.folderNumber = OrEmpty(Cell(ingest.row, ingest.fields[1]))
    /\ Mapped.rowNum = parseNumber(Cell(ingest.row, ingest.fields[1]))

\* The headers each field of an inquiry record is read from (the identifier
\* fields, read from the first column, are not listed).
InquiryHeaders ==
  [ year |-> {"YEAR"},
    month |-> {"MONTH"},
    date |-> {"DATE"},
    week |-> {"WEEK ", "WEEK"},
    vesselName |-> {"VESSEL NAME"},
    eta |-> {"ETA"},
    port |-> {"PORT"},
    principal |-> {"PRINCIPAL"},
    country |-> {"COUNTRY"},
    service |-> {"SERVICE"},
    category |-> {"CATEGORY"},
    qtnValue |-> {"PDA / QTN VALUE"},
    qtnCost |-> {"PDA / QTN  COST", "PDA / QTN COST"},
    qtnProfit |-> {"PDA / QTN PROFIT"},
    qtnMargin |-> {"PDA / QTN MARGIN"},
    marginPercent |-> {"MARGIN %"},
    discountPercent |-> {"DISCOUNT %"},
    qtnStatus |-> {"QTN STATUS"},
    update |-> {"UPDATE"},
    contactPerson |-> {"CONTACT PERSON ", "CONTACT PERSON"},
    contactNumber |-> {"CONTACT NUMBER"},
    contactEmail |-> {"CONTACT PERSON'S EMAIL"},
    pic |-> {"PIC"},
    clientStatus |-> {"CLIENT STATUS"},
    remarks |-> {"REMARKS"},
    rfqNumber |-> {"RFQ NUMBERS / ITEM DESCRIPTION"} ]

\* The headers each field of a shipment record is read from.
ShipmentHeaders ==
  [ id |-> {"Shipment ID"},
    date |-> {"Date (Dep.)"},
    vesselName |-> {"Vessel Name"},
    origin |-> {"Route (Origin-Dest)"},
    destination |-> {"Route (Origin-Dest)"},
    payloadTeu |-> {"Payload (TEUs)"},
    revenue |-> {"Revenue ($)"},
    cost |-> {"Op. Costs ($)"},
    profit |-> {"Profit/Loss ($)"},
    fuelEfficiency |-> {"Fuel Efficiency (MT/nm)"} ]

\* The fields of a shipment record that hold a text.
ShipmentStringFields == {"id", "date", "vesselName", "origin", "destination"}

\* C23: a field none of whose headers is among the observed headers holds its
\* default in the mapped record: 0 when it is numeric, the empty text when it is
\* a string; the mapping of both shapes completes.
C23_AbsentFieldDefaults ==
  (ingest.done /\ ingest.service \in {"inquiry", "shipment"}) =>
    LET headers == IF ingest.service = "inquiry" THEN InquiryHeaders ELSE ShipmentHeaders
        numbers == IF ingest.service = "inquiry" THEN InquiryNumberFields
                   ELSE ShipmentNumberFields
    IN  /\ Len(ingest.parsed) = 1
        /\ \A f \in DOMAIN headers :
             headers[f] \cap Range(ingest.fields) = {} =>
               Mapped[f] = (IF f \in numbers THEN Zero ELSE EmptyText)

\* The same property of the inquiry shape alone.
C23_InquiryAbsentFieldDefaults ==
  (ingest.done /\ ingest.service = "inquiry") =>
    /\ Len(ingest.parsed) = 1
    /\ \A f \in DOMAIN InquiryHeaders :
         InquiryHeaders[f] \cap Range(ingest.fields) = {} =>
           Mapped[f] = (IF f \in InquiryNumberFields THEN Zero ELSE EmptyText)

\* C24: the callback run twice on the same headers and rows binds the same first
\* header and yields the same records.
C24_MappingIsDeterministic ==
  ingest.done =>
    /\ ingest.parsedAgain = ingest.parsed
    /\ ingest.again = ingest.out

\* The same property of the inquiry services.
C24_InquiryMappingIsDeterministic ==
  (ingest.done /\ ingest.service # "shipment") =>
    /\ ingest.parsedAgain = ingest.parsed
    /\ ingest.again = ingest.out

----------------------------------------------------------------------------
\* The grouped breakdown of App on its own: financialData

\* .slice(0, 10)
TopN == 10

\* const key = s.vesselName || 'Unknown'
GroupKey(item) == OrElse(item.vesselName, UnknownText)

\* The position of the first record with this key.
FirstIndex(items, key) ==
  CHOOSE i \in 1..Len(items) :
    /\ GroupKey(items[i]) = key
    /\ \A j \in 1..(i - 1) : GroupKey(items[j]) # key

\* A property key that is an array index: the decimal text of an integer, without
\* leading zeros.
IsIndexKey(key) ==
  /\ key # <<>>
  /\ \A i \in 1..Len(key) : key[i] \in Digits
  /\ (Len(key) = 1 \/ key[1] # "0")

\* The order in which an object lists its own keys: the array indices in
\* ascending numeric order, then the other keys in the order they were created.
KeyBefore(items, a, b) ==
  IF IsIndexKey(a) /\ IsIndexKey(b) THEN DigitsValue(a) < DigitsValue(b)
  ELSE IF IsIndexKey(a) THEN TRUE
  ELSE IF IsIndexKey(b) THEN FALSE
  ELSE FirstIndex(items, a) < FirstIndex(items, b)

\* grouped[key] after the forEach: the sums over the records of the key.
GroupOf(items, key) ==
  LET Member(item) == GroupKey(item) = key
      members == SelectSeq(items, Member)
  IN  [ name    |-> key,
        Cost    |-> SumField(members, "qtnCost", FALSE),
        Profit  |-> SumField(members, "qtnProfit", FALSE),
        Revenue |-> SumField(members, "qtnValue", FALSE) ]

\* Object.values(grouped)
ObjectValues(items) ==
  LET keys == {GroupKey(items[i]) : i \in 1..Len(items)}
      Place(key) == 1 + Cardinality({other \in keys : KeyBefore(items, other, key)})
  IN  [k \in 1..Cardinality(keys) |->
         GroupOf(items, CHOOSE key \in keys : Place(key) = k)]

\* .sort((a, b) => b.Revenue - a.Revenue): a stable sort, descending by Revenue.
SortByRevenue(values) ==
  LET Place(i) ==
        1 + Cardinality({j \in 1..Len(values) :
                           \/ values[j].Revenue.v > values[i].Revenue.v
                           \/ (values[j].Revenue.v = values[i].Revenue.v /\ j < i)})
  IN  [k \in 1..Len(values) |-> values[CHOOSE i \in 1..Len(values) : Place(i) = k]]

\* The financialData memo.
FinancialData(items) ==
  LET sorted == SortByRevenue(ObjectValues(items))
  IN  SubSeq(sorted, 1, IF Len(sorted) < TopN THEN Len(sorted) ELSE TopN)

\* A record of a vessel with a quotation value, in whole units.
Earning(name, value) ==
  [vesselName |-> name, qtnValue |-> Num(value * Scale), qtnCost |-> Zero,
   qtnProfit |-> Num(value * Scale)]

\* The records short record sets are drawn from: names that are array indices,
\* a name that is not, and no name.
Earnings ==
  {Earning(name, value) : name \in {<<"7">>, <<"1", "0">>, <<"A">>, <<>>},
                          value \in {1, 2}}

\* Twelve records of twelve vessels.
Fleet ==
  << Earning(<<"V", "a">>, 1),
    Earning(<<"V", "b">>, 2),
    Earning(<<"V", "c">>, 3),
    Earning(<<"V", "d">>, 4),
    Earning(<<"V", "e">>, 5),
    Earning(<<"V", "f">>, 6),
    Earning(<<"V", "g">>, 7),
    Earning(<<"V", "h">>, 8),
    Earning(<<"V", "i">>, 9),
    Earning(<<"V", "j">>, 10),
    Earning(<<"V", "k">>, 11),
    Earning(<<>>, 12) >>

GroupInit ==
  /\ AppAtRest
  /\ coerce = Idle
  /\ ingest = Idle
  /\ request = Idle
  /\ \E items \in UNION {[1..n -> Earnings] : n \in 0..MaxLen} \cup {Fleet} :
       window = [done |-> FALSE, items |-> items, data |-> <<>>]

\* A render with these inquiries computes the memo.
GroupRender ==
  /\ ~window.done
  /\ window' = [window EXCEPT !.done = TRUE, !.data = FinancialData(window.items)]
  /\ UNCHANGED <<appVars, coerce, ingest, request>>

GroupNext == GroupRender

GroupSpec == GroupInit /\ [][GroupNext]_vars

\* The breakdown lists the groups of greatest Revenue, at most TopN of them, in
\* descending order, and groups of equal Revenue in the order their keys were
\* first met.
IsBreakdown(data, items) ==
  LET keys == {GroupKey(items[i]) : i \in 1..Len(items)}
  IN  /\ Len(data) = (IF Cardinality(keys) < TopN THEN Cardinality(keys) ELSE TopN)
      /\ \A i \in 1..Len(data) : data[i] = GroupOf(items, data[i].name)
      /\ \A i, j \in 1..Len(data) :
           i < j =>
             /\ data[i].Revenue.v >= data[j].Revenue.v
             /\ data[i].Revenue.v = data[j].Revenue.v =>
                  FirstIndex(items, data[i].name) < FirstIndex(items, data[j].name)

\* C25: the breakdown by vessel is in descending order of Revenue, holds at most
\* 10 groups, and lists groups of equal Revenue in the order their keys were
\* first met, whatever the key texts.
C25_Breakdown ==
  window.done => IsBreakdown(window.data, window.items)

\* The same property of the record sets none of whose keys is an array index.
C25_TextKeyBreakdown ==
  (window.done /\ \A i \in 1..Len(window.items) : ~IsIndexKey(GroupKey(window.items[i])))
    => IsBreakdown(window.data, window.items)

----------------------------------------------------------------------------
\* The order of the records: sheets of several rows through the complete callback

\* The rows a sheet is made of: two that are kept, two that are dropped.
OrderRows == {RowA, RowB, RowBlank, SheetRow(<<>>, <<>>, <<>>, <<>>, <<>>, <<"0">>)}

OrderInit ==
  /\ AppAtRest
  /\ coerce = Idle
  /\ request = Idle
  /\ window = Idle
  /\ \E data \in UNION {[1..n -> OrderRows] : n \in 0..MaxLen} :
       ingest = [done |-> FALSE, fields |-> SheetHeaders, data |-> data, out |-> <<>>]

\* The complete callback of the inquiry data service on the sheet.
OrderComplete ==
  /\ ~ingest.done
  /\ ingest' = [ingest EXCEPT
                  !.done = TRUE,
                  !.out = Complete([fields |-> ingest.fields, data |-> ingest.data])]
  /\ UNCHANGED <<appVars, coerce, request, window>>

OrderNext == OrderComplete

OrderSpec == OrderInit /\ [][OrderNext]_vars

\* C27: the records are the mapped rows that pass the row filter, in the order of
\* their source rows.
C27_SourceRowOrder ==
  ingest.done =>
    LET mapped == [i \in 1..Len(ingest.data) |->
                     MapRow(ingest.data[i], FirstHeader(ingest.fields))]
    IN  IsSelection(ingest.out, mapped, {i \in 1..Len(mapped) : IsValid(mapped[i])})

\* Of three rows the second is dropped and the first and third are kept, and
\* they differ.
C27_Witness ==
  /\ ingest.done
  /\ Len(ingest.data) = 3
  /\ Len(ingest.out) = 2
  /\ ingest.data[2] = RowBlank
  /\ ingest.out[1] # ingest.out[2]

----------------------------------------------------------------------------
\* The Login screen on its own

\* Submissions made while the Login screen is shown.
MaxAttempts == 2

\* import.meta.env.VITE_DASHBOARD_PASSCODE: not set, empty, or a passcode.
Passcodes == {Undefined, <<>>, <<"9", "9">>}

\* The texts typed into the input.
TypedCodes == {<<>>, <<"1", "2", "3", "4">>, <<"1", "2", "3">>, <<"9", "9">>}

\* const ACCESS_CODE = import.meta.env.VITE_DASHBOARD_PASSCODE || '1234'
AccessCode(env) == OrElse(env, <<"1", "2", "3", "4">>)

\* No timeout is set.
NoTimeout == [set |-> FALSE, code |-> <<>>]

\* useState(''), useState(false), useState(false); onLogin has not been called.
LoginInit ==
  /\ AppAtRest
  /\ coerce = Idle
  /\ ingest = Idle
  /\ window = Idle
  /\ \E env \in Passcodes :
       request = [done |-> TRUE, env |-> env, code |-> <<>>, error |-> FALSE,
                  isLoading |-> FALSE, timeout |-> NoTimeout, attempts |-> 0,
                  submitted |-> <<>>, onLogin |-> 0]

\* onChange of the input: setCode(e.target.value); if (error) setError(false)
LoginChange ==
  /\ request.onLogin = 0
  /\ \E text \in TypedCodes :
       /\ text # request.code
       /\ request' = [request EXCEPT !.code = text, !.error = FALSE]
  /\ UNCHANGED <<appVars, coerce, ingest, window>>

\* handleSubmit: the button is disabled while isLoading, so the form is submitted
\* only when it is false.  The timeout function closes over the code of this render.
LoginSubmit ==
  /\ request.onLogin = 0
  /\ ~request.isLoading
  /\ request.attempts < MaxAttempts
  /\ request' = [request EXCEPT
                   !.isLoading = TRUE,
                   !.error = FALSE,
                   !.timeout = [set |-> TRUE, code |-> request.code],
                   !.attempts = @ + 1,
                   !.submitted = request.code]
  /\ UNCHANGED <<appVars, coerce, ingest, window>>

\* Faulty variant of LoginTimeout: the code is read from the input when the
\* timeout fires.
LoginTimeoutReadsInput ==
  /\ request.timeout.set
  /\ IF request.code = AccessCode(request.env)
       THEN request' = [request EXCEPT !.timeout = NoTimeout, !.onLogin = @ + 1]
       ELSE request' = [request EXCEPT !.timeout = NoTimeout, !.error = TRUE,
                                       !.isLoading = FALSE]
  /\ UNCHANGED <<appVars, coerce, ingest, window>>

\* The function given to setTimeout runs, 600 ms after the submission.
LoginTimeout ==
  /\ request.timeout.set
  /\ IF request.timeout.code = AccessCode(request.env)
       THEN request' = [request EXCEPT !.timeout = NoTimeout, !.onLogin = @ + 1]
       ELSE request' = [request EXCEPT !.timeout = NoTimeout, !.error = TRUE,
                                       !.isLoading = FALSE]
  /\ UNCHANGED <<appVars, coerce, ingest, window>>

LoginNext ==
  \/ LoginChange
  \/ LoginSubmit
  \/ LoginTimeout

LoginSpec == LoginInit /\ [][LoginNext]_vars

\* C30: onLogin is called only for a submission whose code, as it was when the
\* form was submitted, is the access code; the timeout of any other submission
\* calls nothing, sets error and clears isLoading.
C30_LoginOnlyWithAccessCode ==
  [][ /\ request'.onLogin # request.onLogin =>
           /\ request.timeout.set
           /\ request.submitted = AccessCode(request.env)
      /\ (request.timeout.set /\ ~request'.timeout.set
            /\ request.submitted # AccessCode(request.env)) =>
           /\ request'.onLogin = request.onLogin
           /\ request'.error
           /\ ~request'.isLoading ]_vars

\* A submission of another code was refused though the access code was typed
\* while it was being verified; the access code can then be submitted.
C30_Witness ==
  /\ request.done
  /\ request.error
  /\ ~request.isLoading
  /\ request.submitted # AccessCode(request.env)
  /\ request.code = AccessCode(request.env)
  /\ request.attempts < MaxAttempts

=============================================================================
